---- MODULE Spec2Model ----
(***************************************************************************)
(* State-machine model of fastText's ProductQuantizer                      *)
(* (src/src/productquantizer.cc).                                          *)
(*                                                                         *)
(* Arrays are functions over 0..len-1, so an offset of the code is the     *)
(* index of the model.  A `real` is modelled by an integer counting units  *)
(* of eps_ (exact arithmetic: rounding of 32-bit floats is not modelled).  *)
(* centroids-per-subspace, the iteration count and the sampling cap are    *)
(* scaled down from the header's values so that the state space is finite  *)
(* and small.                                                              *)
(***************************************************************************)
EXTENDS Integers, Sequences, FiniteSets, TLC

VARIABLES
  pc,          \* position of the (single) calling thread
  dim_, nsubq_, dsub_, lastdsub_, centroids_, rng,   \* the ProductQuantizer object
  ret_const, ret_mut, arg_m, arg_i,                  \* last get_centroids call and its results
  a_x, a_c0, a_d,                                    \* assign_centroid's arguments
  a_code, a_dis, a_prev, a_calls,                    \* its results, the previous code, calls made
  status,                                            \* outcome of the last train call
  t_n, t_x,                                          \* train's arguments n and x
  perm, np, t_d, t_m, xslice,                            \* train's locals (t_d, t_m are its d, m)
  codes, iter,                                       \* kmeans' locals (iter is its loop counter i)
  nelts, ms_k, ms_m,                                 \* MStep's locals (ms_k, ms_m are its k, m)
  kmeans_runs, donors,                               \* history: kmeans calls of this train, (k, m) splits of this MStep
  stream, failbit,                                   \* the unread bytes of the caller's stream, its fail state
  load_status,                                       \* outcome of the last load
  last_op, trip, snap,                               \* history: the last operation, the progress of a save-load round trip, the object as saved
  code_buf, xvec, res                                \* the caller's code buffer and dense vector, mulcode's result

qvars == <<dim_, nsubq_, dsub_, lastdsub_, centroids_, rng>>
shapevars == <<ret_const, ret_mut, arg_m, arg_i>>
assignvars == <<a_x, a_c0, a_d, a_code, a_dis, a_prev, a_calls>>
trainargs == <<status, t_n, t_x>>
trainlocals == <<perm, np, t_d, t_m, xslice, codes, iter, nelts, ms_k, ms_m, kmeans_runs, donors>>
trainvars == <<trainargs, trainlocals>>
persistvars == <<stream, failbit, load_status, last_op, trip, snap>>
codecvars == <<code_buf, xvec, res>>
vars == <<pc, qvars, shapevars, assignvars, trainvars, persistvars, codecvars>>

(***************************************************************************)
(* Bounds of the model and scaled program constants.                       *)
(***************************************************************************)
\* ksub_ = 1 << nbits_ = 256 in the program; scaled down.
ksub_ == 3
\* rng is the position in the generator's output stream, modulo RngPeriod.
RngPeriod == 2
\* Shapes explored for the constructor and the accessors.
ShapeMaxDim == 6
ShapeMaxDsub == 4
\* Inputs of assign_centroid: a width in AssignDims, coordinates 0..AssignMaxVal.
AssignDims == {1, 2}
AssignMaxVal == 1
\* Calls of assign_centroid on one input.
AssignMaxCalls == 2
\* niter_ = 25 in the program; scaled down.
niter_ == 2
\* eps_ = 1e-7 in the program: the unit in which reals are counted.
eps_ == 1
\* max_points_ = max_points_per_cluster_ * ksub_ = 256 * 256 in the program;
\* scaled down to one point more than there are centroids.
max_points_ == ksub_ + 1
\* Shapes (dim, dsub) and data explored for training: n ranges over
\* ksub_ - 1 .. max_points_ + 1, and each point is one of the vectors that
\* TrainPoints identifies.
TrainShapes == {<<1, 1>>, <<2, 1>>, <<2, 2>>}
TrainPoints == {0, 1}
\* Shapes (dim, dsub) of the instances that save and load, and the streams
\* given to load from outside: headers with a dimension in StreamDims and a
\* subspace dimension in StreamDsubs, reals in StreamReals, cut at any byte.
PersistShapes == {<<1, 1>>, <<3, 2>>}
StreamDims == {-1, 0, 1}
StreamDsubs == {1, 2}
StreamReals == {0, 1}
\* Shapes trained before encoding, the number of vectors encoded at once,
\* and the scale factors of the arithmetic on codes.
CodecShapes == {<<2, 1>>, <<3, 2>>}
CodecBatches == {1, 2}
CodecAlphas == {1, 2}
\* Shapes explored for the termination of training.
FairShapes == {<<1, 1>>}

(***************************************************************************)
(* Helpers.                                                                *)
(***************************************************************************)
Size(a) == Cardinality(DOMAIN a)

Zeros(n) == [i \in 0 .. n - 1 |-> 0]

RECURSIVE SumTo(_, _)
SumTo(f, n) == IF n = 0 THEN 0 ELSE f[n - 1] + SumTo(f, n - 1)

(***************************************************************************)
(* Constructor.                                                            *)
(***************************************************************************)
\* A constructor that forgets the extra subquantizer of an irregular tail.
ProductQuantizer_noincr(dim, dsub) ==
  LET r == dim % dsub IN
  [dim_ |-> dim, nsubq_ |-> dim \div dsub, dsub_ |-> dsub,
   lastdsub_ |-> IF r = 0 THEN dsub ELSE r,
   centroids_ |-> Zeros(dim * ksub_), rng |-> 0]

\* ProductQuantizer::ProductQuantizer(int32_t dim, int32_t dsub)
ProductQuantizer(dim, dsub) ==
  LET n0 == dim \div dsub
      r == dim % dsub
  IN [dim_ |-> dim,
      nsubq_ |-> IF r = 0 THEN n0 ELSE n0 + 1,
      dsub_ |-> dsub,
      lastdsub_ |-> IF r = 0 THEN dsub ELSE r,
      centroids_ |-> Zeros(dim * ksub_),
      rng |-> 0]

SetObject(o) ==
  /\ dim_' = o.dim_
  /\ nsubq_' = o.nsubq_
  /\ dsub_' = o.dsub_
  /\ lastdsub_' = o.lastdsub_
  /\ centroids_' = o.centroids_
  /\ rng' = o.rng

Construct(dim, dsub) ==
  /\ pc = "new"
  /\ SetObject(ProductQuantizer(dim, dsub))
  /\ pc' = "idle"

(***************************************************************************)
(* Partition / addressing.                                                 *)
(***************************************************************************)
\* An accessor that strides the last subspace by dsub_ instead of lastdsub_.
get_centroids_const_stride(m, i) == (m * ksub_ + i) * dsub_

\* const real* ProductQuantizer::get_centroids(int32_t m, uint8_t i) const
get_centroids_const(m, i) ==
  IF m = nsubq_ - 1
    THEN m * ksub_ * dsub_ + i * lastdsub_
    ELSE (m * ksub_ + i) * dsub_

\* real* ProductQuantizer::get_centroids(int32_t m, uint8_t i)
get_centroids(m, i) ==
  IF m = nsubq_ - 1
    THEN m * ksub_ * dsub_ + i * lastdsub_
    ELSE (m * ksub_ + i) * dsub_

\* The width d the callers pair with subspace m:
\* auto d = dsub_; ... if (m == nsubq_ - 1) d = lastdsub_;
Width(m) == IF m = nsubq_ - 1 THEN lastdsub_ ELSE dsub_

GetCentroids(m, i) ==
  /\ pc = "idle"
  /\ arg_m' = m
  /\ arg_i' = i
  /\ ret_const' = get_centroids_const(m, i)
  /\ ret_mut' = get_centroids(m, i)
  /\ UNCHANGED <<pc, qvars, assignvars, trainvars, persistvars, codecvars>>

(***************************************************************************)
(* Distance and assignment.                                                *)
(***************************************************************************)
\* real distL2(const real* x, const real* y, int32_t d), the pointers given
\* as an array and an offset into it.
RECURSIVE distL2(_, _, _, _, _)
distL2(x, xo, y, yo, d) ==
  IF d = 0 THEN 0
  ELSE LET tmp == x[xo + d - 1] - y[yo + d - 1]
       IN distL2(x, xo, y, yo, d - 1) + tmp * tmp

\* The scan of assign_centroid from centroid j on, keeping the best so far.
\* This variant replaces the best on a tie (<= for <).
RECURSIVE assign_scan_le(_, _, _, _, _, _, _)
assign_scan_le(x, xo, c, c0, d, j, best) ==
  IF j >= ksub_ THEN best
  ELSE LET disij == distL2(x, xo, c, c0 + j * d, d)
       IN assign_scan_le(x, xo, c, c0, d, j + 1,
                         IF disij <= best.dis THEN [code |-> j, dis |-> disij] ELSE best)

\* for (auto j = 1; j < ksub_; j++) { c += d; disij = distL2(x, c, d);
\*   if (disij < dis) { code[0] = (uint8_t)j; dis = disij; } }
RECURSIVE assign_scan(_, _, _, _, _, _, _)
assign_scan(x, xo, c, c0, d, j, best) ==
  IF j >= ksub_ THEN best
  ELSE LET disij == distL2(x, xo, c, c0 + j * d, d)
       IN assign_scan(x, xo, c, c0, d, j + 1,
                      IF disij < best.dis THEN [code |-> j, dis |-> disij] ELSE best)

\* real ProductQuantizer::assign_centroid(x, c0, code, d): the code written
\* to code[0] and the distance returned.
assign_centroid(x, xo, c, c0, d) ==
  assign_scan(x, xo, c, c0, d, 1, [code |-> 0, dis |-> distL2(x, xo, c, c0, d)])

AssignCentroid ==
  /\ a_calls < AssignMaxCalls
  /\ LET r == assign_centroid(a_x, 0, a_c0, 0, a_d)
     IN /\ a_code' = r.code
        /\ a_dis' = r.dis
  /\ a_prev' = a_code
  /\ a_calls' = a_calls + 1
  /\ UNCHANGED <<pc, qvars, shapevars, trainvars, persistvars, codecvars, a_x, a_c0, a_d>>

(***************************************************************************)
(* Clustering engine and training orchestrator.                            *)
(***************************************************************************)
Min(a, b) == IF a < b THEN a ELSE b

\* One use of the generator (a shuffle, a uniform draw) advances its state.
Advance(g, uses) == (g + uses) % RngPeriod

\* std::iota(perm.begin(), perm.end(), 0)
Iota(n) == [i \in 0 .. n - 1 |-> i]

\* The outcomes of std::shuffle on n elements: every permutation.
Shuffles(n) == Permutations(0 .. n - 1)

\* A guard that also rejects n = ksub_.
too_small_le(n) == n <= ksub_

\* if (n < ksub_) throw std::invalid_argument(...)
too_small(n) == n < ksub_

\* void ProductQuantizer::train(int32_t n, const real* x), up to the loop
\* over the subquantizers.
TrainCall(n, x) ==
  /\ pc = "idle"
  /\ status \in {"none", "invalid_argument"}
  /\ t_n' = n
  /\ t_x' = x
  /\ IF too_small(n)
       THEN /\ status' = "invalid_argument"
            /\ UNCHANGED <<pc, qvars, trainlocals>>
       ELSE /\ status' = "running"
            /\ perm' = Iota(n)
            /\ t_d' = dsub_
            /\ np' = Min(n, max_points_)
            /\ xslice' = Zeros(Min(n, max_points_) * dsub_)
            /\ t_m' = 0
            /\ kmeans_runs' = 0
            /\ pc' = "subq"
            /\ UNCHANGED <<qvars, codes, iter, nelts, ms_k, ms_m, donors>>
  /\ UNCHANGED <<shapevars, assignvars, persistvars, codecvars>>

\* memcpy(xslice.data() + j * d, x + perm[j] * dim_ + m * dsub_, d * sizeof(real))
\* for j < np.
CopySlice(xs, x, p, n1, d1) ==
  [o \in DOMAIN xs |->
     IF o < n1 * d1
       THEN x[p[o \div d1] * dim_ + t_m * dsub_ + (o % d1)]
       ELSE xs[o]]

\* kmeans' seeding: memcpy(&c[i * d], x + perm[i] * d, d * sizeof(real)) for
\* i < ksub_, c being get_centroids(m, 0).
SeedCentroids(c, base, xs, p, d1) ==
  [o \in DOMAIN c |->
     IF o >= base /\ o < base + ksub_ * d1
       THEN xs[p[(o - base) \div d1] * d1 + ((o - base) % d1)]
       ELSE c[o]]

\* One pass of train's loop body: the width of subspace m, the reshuffle
\* when sampling, the slice copy, and kmeans up to its EM loop.
\* When np # n, perm is reshuffled here before every use and the outcomes of
\* a shuffle do not depend on what it is given, so the shuffled value is used
\* for the copy and not kept: perm stays the identity, which is what it is
\* whenever it is read without a reshuffle (np = n).
TrainSubspace ==
  /\ pc = "subq"
  /\ t_m < nsubq_
  /\ LET d1 == IF t_m = nsubq_ - 1 THEN lastdsub_ ELSE t_d
         base == get_centroids(t_m, 0)
     IN /\ t_d' = d1
        /\ \E xs \in {CopySlice(xslice, t_x, p, np, d1) :
                       p \in (IF np # t_n THEN Shuffles(t_n) ELSE {perm})} :
             /\ xslice' = xs
             /\ \E c \in {SeedCentroids(centroids_, base, xs, p2, d1) :
                            p2 \in Shuffles(np)} :
                  centroids_' = c
        /\ rng' = Advance(rng, IF np # t_n THEN 2 ELSE 1)
  /\ codes' = Zeros(np)
  /\ iter' = 0
  /\ kmeans_runs' = kmeans_runs + 1
  /\ pc' = "em"
  /\ UNCHANGED <<dim_, nsubq_, dsub_, lastdsub_, perm, np, t_m, nelts, ms_k, ms_m, donors>>
  /\ UNCHANGED <<trainargs, shapevars, assignvars, persistvars, codecvars>>

\* train returns after the last subquantizer; its locals go out of scope.
TrainReturn ==
  /\ pc = "subq"
  /\ t_m = nsubq_
  /\ status' = "ok"
  /\ pc' = "idle"
  /\ perm' = Zeros(0) /\ xslice' = Zeros(0) /\ np' = 0 /\ t_d' = 0 /\ t_m' = 0
  /\ UNCHANGED <<qvars, t_n, t_x, codes, iter, nelts, ms_k, ms_m, kmeans_runs, donors>>
  /\ UNCHANGED <<shapevars, assignvars, persistvars, codecvars>>

\* void ProductQuantizer::Estep(x, centroids, codes, d, n)
Estep(x, c, base, d1, n) ==
  [i \in 0 .. n - 1 |-> assign_centroid(x, i * d1, c, base, d1).code]

\* MStep's count: nelts[k]++ for every point with code k.
CountCodes(cs, n) ==
  [c \in 0 .. ksub_ - 1 |-> Cardinality({i \in 0 .. n - 1 : cs[i] = c})]

RECURSIVE SumCoord(_, _, _, _, _, _)
\* Sum of coordinate j over the first n points whose code is c.
SumCoord(x, cs, d1, c, j, n) ==
  IF n = 0 THEN 0
  ELSE SumCoord(x, cs, d1, c, j, n - 1)
       + (IF cs[n - 1] = c THEN x[(n - 1) * d1 + j] ELSE 0)

\* MStep up to the reseed loop: memset, the sums, the division by the count
\* of every non-empty cluster.
Means(c, base, x, cs, d1, n) ==
  LET cnt == CountCodes(cs, n) IN
  [o \in DOMAIN c |->
     IF o >= base /\ o < base + ksub_ * d1
       THEN LET cl == (o - base) \div d1
                j == (o - base) % d1
                sum == SumCoord(x, cs, d1, cl, j, n)
            IN IF cnt[cl] # 0 THEN sum \div cnt[cl] ELSE sum
       ELSE c[o]]

\* One iteration of kmeans' loop: Estep, then MStep up to its reseed loop.
EStepMeans ==
  /\ pc = "em"
  /\ iter < niter_
  /\ LET base == get_centroids(t_m, 0)
         cs == Estep(xslice, centroids_, base, t_d, np)
     IN /\ codes' = cs
        /\ nelts' = CountCodes(cs, np)
        /\ centroids_' = Means(centroids_, base, xslice, cs, t_d, np)
  /\ ms_k' = 0
  /\ donors' = <<>>
  /\ pc' = "reseed"
  /\ UNCHANGED <<dim_, nsubq_, dsub_, lastdsub_, rng>>
  /\ UNCHANGED <<trainargs, perm, np, t_d, t_m, xslice, iter, ms_m, kmeans_runs>>
  /\ UNCHANGED <<shapevars, assignvars, persistvars, codecvars>>

\* kmeans returns after niter_ iterations; train's loop goes to the next m.
KmeansReturn ==
  /\ pc = "em"
  /\ iter = niter_
  /\ t_m' = t_m + 1
  /\ codes' = Zeros(0)
  /\ iter' = 0
  /\ pc' = "subq"
  /\ UNCHANGED <<qvars, trainargs, perm, np, t_d, xslice, nelts, ms_k, ms_m, kmeans_runs, donors>>
  /\ UNCHANGED <<shapevars, assignvars, persistvars, codecvars>>

\* The reseed loop passes a cluster that has points.
ReseedSkip ==
  /\ pc = "reseed"
  /\ ms_k < ksub_
  /\ nelts[ms_k] # 0
  /\ ms_k' = ms_k + 1
  /\ UNCHANGED <<pc, qvars, trainargs, perm, np, t_d, t_m, xslice, codes, iter, nelts,
                 ms_m, kmeans_runs, donors>>
  /\ UNCHANGED <<shapevars, assignvars, persistvars, codecvars>>

\* if (nelts[k] == 0) { int32_t m = 0; while (...)
ReseedStart ==
  /\ pc = "reseed"
  /\ ms_k < ksub_
  /\ nelts[ms_k] = 0
  /\ ms_m' = 0
  /\ pc' = "donor"
  /\ UNCHANGED <<qvars, trainargs, perm, np, t_d, t_m, xslice, codes, iter, nelts, ms_k,
                 kmeans_runs, donors>>
  /\ UNCHANGED <<shapevars, assignvars, persistvars, codecvars>>

\* runiform(rng) * (n - ksub_) for r in [0, 1), by its integer part: the
\* comparison is against the integer nelts[m] - 1.
Draws(n) == 0 .. (IF n - ksub_ >= 1 THEN n - ksub_ - 1 ELSE 0)

\* A scan that passes every cluster of fewer than three points.
passes_lt3(t, cnt) == t >= cnt - 2

\* while (runiform(rng) * (n - ksub_) >= nelts[m] - 1)
passes(t, cnt) == t >= cnt - 1

\* The scan passes cluster m: m = (m + 1) % ksub_
DonorReject(t) ==
  /\ pc = "donor"
  /\ passes(t, nelts[ms_m])
  /\ ms_m' = (ms_m + 1) % ksub_
  /\ rng' = Advance(rng, 1)
  /\ UNCHANGED <<pc, dim_, nsubq_, dsub_, lastdsub_, centroids_>>
  /\ UNCHANGED <<trainargs, perm, np, t_d, t_m, xslice, codes, iter, nelts, ms_k, kmeans_runs, donors>>
  /\ UNCHANGED <<shapevars, assignvars, persistvars, codecvars>>

\* A perturbation with the signs exchanged.
sign_flipped(j) == 1 - (j % 2) * 2

\* int32_t sign = (j % 2) * 2 - 1
sign(j) == (j % 2) * 2 - 1

\* memcpy(centroids + k * d, centroids + m * d, ...), then for every j
\* centroids[k * d + j] += sign * eps_; centroids[m * d + j] -= sign * eps_
Split(c, base, kk, mm, d1) ==
  [o \in DOMAIN c |->
     IF o >= base + kk * d1 /\ o < base + (kk + 1) * d1
       THEN c[base + mm * d1 + (o - base - kk * d1)] + sign(o - base - kk * d1) * eps_
     ELSE IF o >= base + mm * d1 /\ o < base + (mm + 1) * d1
       THEN c[o] - sign(o - base - mm * d1) * eps_
     ELSE c[o]]

\* A split that gives the new cluster the donor's whole count.
SplitCounts_all(cnt, kk, mm) ==
  [c \in DOMAIN cnt |-> IF c = kk THEN cnt[mm] ELSE IF c = mm THEN 0 ELSE cnt[c]]

\* nelts[k] = nelts[m] / 2; nelts[m] -= nelts[k]
SplitCounts(cnt, kk, mm) ==
  [c \in DOMAIN cnt |->
     IF c = kk THEN cnt[mm] \div 2
     ELSE IF c = mm THEN cnt[mm] - cnt[mm] \div 2
     ELSE cnt[c]]

\* The scan stops at donor m: the empty cluster k is reseeded from it.
DonorAccept(t) ==
  /\ pc = "donor"
  /\ ~passes(t, nelts[ms_m])
  /\ centroids_' = Split(centroids_, get_centroids(t_m, 0), ms_k, ms_m, t_d)
  /\ nelts' = SplitCounts(nelts, ms_k, ms_m)
  /\ rng' = Advance(rng, 1)
  /\ donors' = Append(donors, <<ms_k, ms_m>>)
  /\ ms_k' = ms_k + 1
  /\ pc' = "reseed"
  /\ UNCHANGED <<dim_, nsubq_, dsub_, lastdsub_>>
  /\ UNCHANGED <<trainargs, perm, np, t_d, t_m, xslice, codes, iter, ms_m, kmeans_runs>>
  /\ UNCHANGED <<shapevars, assignvars, persistvars, codecvars>>

\* MStep returns once the reseed loop has passed every cluster.
MStepReturn ==
  /\ pc = "reseed"
  /\ ms_k = ksub_
  /\ iter' = iter + 1
  /\ nelts' = Zeros(0)
  /\ ms_k' = 0
  /\ ms_m' = 0
  /\ donors' = <<>>
  /\ pc' = "em"
  /\ UNCHANGED <<qvars, trainargs, perm, np, t_d, t_m, xslice, codes, kmeans_runs>>
  /\ UNCHANGED <<shapevars, assignvars, persistvars, codecvars>>

(***************************************************************************)
(* Codec: encoding and arithmetic on codes.                                *)
(***************************************************************************)
\* void ProductQuantizer::compute_code(const real* x, uint8_t* code) const:
\* the buffer `code` points into, after byte m of the code at offset co is
\* written for every subquantizer m.
compute_code(x, xo, code, co) ==
  [o \in DOMAIN code |->
     IF o >= co /\ o < co + nsubq_
       THEN assign_centroid(x, xo + (o - co) * dsub_, centroids_,
                            get_centroids_const(o - co, 0), Width(o - co)).code
       ELSE code[o]]

RECURSIVE compute_codes(_, _, _)
\* void ProductQuantizer::compute_codes(const real* x, uint8_t* codes, int32_t n) const
compute_codes(x, cds, n) ==
  IF n = 0 THEN cds
  ELSE compute_code(x, (n - 1) * dim_, compute_codes(x, cds, n - 1), (n - 1) * nsubq_)

\* The coordinate of the centroid that code t selects for position o of a
\* dense vector: c[n] with c = get_centroids(m, code[m]), o = m * dsub_ + n.
Selected(cds, t, o) ==
  centroids_[get_centroids_const(o \div dsub_, cds[nsubq_ * t + (o \div dsub_)]) + (o % dsub_)]

RECURSIVE Dot(_, _, _, _)
Dot(x, cds, t, n) ==
  IF n = 0 THEN 0 ELSE Dot(x, cds, t, n - 1) + x[n - 1] * Selected(cds, t, n - 1)

\* real ProductQuantizer::mulcode(const Vector& x, const uint8_t* codes, int32_t t, real alpha) const
mulcode(x, cds, t, alpha) == Dot(x, cds, t, dim_) * alpha

\* void ProductQuantizer::addcode(Vector& x, const uint8_t* codes, int32_t t, real alpha) const:
\* the vector x afterwards.
addcode(x, cds, t, alpha) ==
  [o \in DOMAIN x |-> IF o < dim_ THEN x[o] + alpha * Selected(cds, t, o) ELSE x[o]]

\* The calls are made on a trained quantizer by the thread that owns it.
Trained == pc = "idle" /\ status = "ok"

\* The codes that code_buf holds for the present shape.
CodesHeld == IF nsubq_ >= 1 THEN 0 .. (Size(code_buf) \div nsubq_) - 1 ELSE {}

ComputeCode(x) ==
  /\ Trained
  /\ code_buf' = compute_code(x, 0, Zeros(nsubq_), 0)
  /\ last_op' = "compute_code"
  /\ UNCHANGED <<pc, qvars, xvec, res>>
  /\ UNCHANGED <<stream, failbit, load_status, trip, snap>>
  /\ UNCHANGED <<shapevars, assignvars, trainvars>>

ComputeCodes(x, n) ==
  /\ Trained
  /\ code_buf' = compute_codes(x, Zeros(n * nsubq_), n)
  /\ last_op' = "compute_codes"
  /\ UNCHANGED <<pc, qvars, xvec, res>>
  /\ UNCHANGED <<stream, failbit, load_status, trip, snap>>
  /\ UNCHANGED <<shapevars, assignvars, trainvars>>

Mulcode(x, t, alpha) ==
  /\ Trained
  /\ t \in CodesHeld
  /\ res' = mulcode(x, code_buf, t, alpha)
  /\ last_op' = "mulcode"
  /\ UNCHANGED <<pc, qvars, code_buf, xvec>>
  /\ UNCHANGED <<stream, failbit, load_status, trip, snap>>
  /\ UNCHANGED <<shapevars, assignvars, trainvars>>

\* An accumulate that adds into the selected centroids as well.
Addcode_into_table(x, t, alpha) ==
  /\ Trained
  /\ t \in CodesHeld
  /\ xvec' = addcode(x, code_buf, t, alpha)
  /\ centroids_' = [o \in DOMAIN centroids_ |->
                      IF o < dim_ THEN centroids_[o] + alpha * x[o] ELSE centroids_[o]]
  /\ last_op' = "addcode"
  /\ UNCHANGED <<pc, dim_, nsubq_, dsub_, lastdsub_, rng, code_buf, res>>
  /\ UNCHANGED <<stream, failbit, load_status, trip, snap>>
  /\ UNCHANGED <<shapevars, assignvars, trainvars>>

Addcode(x, t, alpha) ==
  /\ Trained
  /\ t \in CodesHeld
  /\ xvec' = addcode(x, code_buf, t, alpha)
  /\ last_op' = "addcode"
  /\ UNCHANGED <<pc, qvars, code_buf, res>>
  /\ UNCHANGED <<stream, failbit, load_status, trip, snap>>
  /\ UNCHANGED <<shapevars, assignvars, trainvars>>

(***************************************************************************)
(* Persistence.  A stream is a sequence of bytes; an int32_t and a real     *)
(* are four bytes each, low byte first, as out.write and in.read copy them. *)
(***************************************************************************)
\* The largest int32_t.
Int32Max == 2147483647

RECURSIVE Pow256(_)
Pow256(e) == IF e = 0 THEN 1 ELSE 256 * Pow256(e - 1)

\* The four bytes of a 32-bit value in memory (two's complement): those of
\* v for v >= 0, those of v + 2^31 with the top bit set for v < 0.
ToBytes(v) ==
  LET u == IF v >= 0 THEN v ELSE (v + Int32Max) + 1
  IN [b \in 1 .. 4 |->
        ((u \div Pow256(b - 1)) % 256) + (IF b = 4 /\ v < 0 THEN 128 ELSE 0)]

\* The 32-bit value held by four bytes of memory.
FromBytes(bs) ==
  LET low == bs[1] + 256 * bs[2] + 256 * 256 * bs[3]
  IN IF bs[4] < 128
       THEN low + Pow256(3) * bs[4]
       ELSE ((low + Pow256(3) * (bs[4] - 128)) - Int32Max) - 1

RECURSIVE TableBytes(_, _)
\* The bytes of the first n elements of table c.
TableBytes(c, n) ==
  IF n = 0 THEN <<>> ELSE TableBytes(c, n - 1) \o ToBytes(c[n - 1])

\* A save that writes nsubq_ before dim_.
save_swapped(o) ==
  ToBytes(o.nsubq_) \o ToBytes(o.dim_) \o ToBytes(o.dsub_) \o ToBytes(o.lastdsub_)
    \o TableBytes(o.centroids_, Size(o.centroids_))

\* void ProductQuantizer::save(std::ostream& out) const: the bytes written.
save(o) ==
  ToBytes(o.dim_) \o ToBytes(o.nsubq_) \o ToBytes(o.dsub_) \o ToBytes(o.lastdsub_)
    \o TableBytes(o.centroids_, Size(o.centroids_))

\* in.read((char*)&v, 4) at position pos of stream s: the bytes the stream
\* still holds overwrite the first bytes of v, the others keep their value.
\* (A read that comes up short sets failbit, and every later read then
\* extracts nothing: the stream holds nothing past its end either way.)
Read(old, s, pos) ==
  FromBytes([b \in 1 .. 4 |-> IF pos + b <= Len(s) THEN s[pos + b] ELSE ToBytes(old)[b]])

\* The object as a record.
Object ==
  [dim_ |-> dim_, nsubq_ |-> nsubq_, dsub_ |-> dsub_, lastdsub_ |-> lastdsub_,
   centroids_ |-> centroids_, rng |-> rng]

\* void ProductQuantizer::load(std::istream& in) on object o: the object
\* afterwards, whether resize threw std::length_error (dim_ * ksub_ negative,
\* an enormous size_t), and the stream's failbit.  (The dimensions explored
\* keep dim_ * ksub_ within an int32_t.)
load(o, s) ==
  LET dim1 == Read(o.dim_, s, 0)
      nsubq1 == Read(o.nsubq_, s, 4)
      dsub1 == Read(o.dsub_, s, 8)
      lastdsub1 == Read(o.lastdsub_, s, 12)
      size == dim1 * ksub_
      old == o.centroids_
      resized == [i \in 0 .. size - 1 |-> IF i < Size(old) THEN old[i] ELSE 0]
  IN [obj |-> [dim_ |-> dim1, nsubq_ |-> nsubq1, dsub_ |-> dsub1, lastdsub_ |-> lastdsub1,
               centroids_ |-> IF size < 0 THEN old
                              ELSE [i \in 0 .. size - 1 |-> Read(resized[i], s, 16 + 4 * i)],
               rng |-> o.rng],
      threw |-> size < 0,
      failbit |-> Len(s) < 16 + (IF size < 0 THEN 0 ELSE 4 * size)]

\* No object: what snap holds when no saved bytes are waiting to be loaded.
NoObject ==
  [dim_ |-> 0, nsubq_ |-> 0, dsub_ |-> 0, lastdsub_ |-> 0, centroids_ |-> Zeros(0), rng |-> 0]

\* A fresh instance takes the place of the one in use; the stream stays.
FreshInstance(dim, dsub) ==
  /\ pc \in {"idle", "failed"}
  /\ SetObject(ProductQuantizer(dim, dsub))
  /\ pc' = "idle"
  /\ load_status' = "none"
  /\ last_op' = "fresh"
  /\ trip' = IF trip \in {"saved", "saved_fresh"} THEN "saved_fresh" ELSE "none"
  /\ snap' = IF trip \in {"saved", "saved_fresh"} THEN snap ELSE NoObject
  /\ UNCHANGED <<stream, failbit>>
  /\ UNCHANGED <<shapevars, assignvars, trainvars, codecvars>>

\* save into a new stream of the caller.
Save ==
  /\ pc = "idle"
  /\ stream' = save(Object)
  /\ failbit' = FALSE
  /\ last_op' = "save"
  /\ trip' = "saved"
  /\ snap' = Object
  /\ UNCHANGED <<pc, qvars, load_status>>
  /\ UNCHANGED <<shapevars, assignvars, trainvars, codecvars>>

\* The bytes of s that load leaves unread.
Unread(s, r) ==
  LET used == 16 + (IF r.threw THEN 0 ELSE 4 * Size(r.obj.centroids_))
  IN IF Len(s) <= used THEN <<>> ELSE SubSeq(s, used + 1, Len(s))

\* load from the bytes s.  An instance whose load threw is used again only
\* to load (or is replaced by a fresh instance).
LoadFrom(s) ==
  /\ pc \in {"idle", "failed"}
  /\ LET r == load(Object, s)
     IN /\ SetObject(r.obj)
        /\ failbit' = r.failbit
        /\ load_status' = IF r.threw THEN "length_error" ELSE "ok"
        /\ pc' = IF r.threw THEN "failed" ELSE "idle"
        /\ stream' = Unread(s, r)
  /\ UNCHANGED <<shapevars, assignvars, trainvars, codecvars>>

\* load from the stream as the last save, or the last load, left it.
LoadStream ==
  /\ LoadFrom(stream)
  /\ last_op' = "load"
  /\ trip' = IF trip = "saved" THEN "loaded"
             ELSE IF trip = "saved_fresh" THEN "loaded_fresh" ELSE "none"
  /\ snap' = IF trip \in {"saved", "saved_fresh"} THEN snap ELSE NoObject

\* The caller opens a stream that holds the bytes s and loads from it.
LoadExternal(s) ==
  /\ LoadFrom(s)
  /\ last_op' = "load_ext"
  /\ trip' = "none"
  /\ snap' = NoObject

(***************************************************************************)
(* Initial states.                                                         *)
(***************************************************************************)
InitObject ==
  /\ pc = "new"
  /\ dim_ = 0 /\ nsubq_ = 0 /\ dsub_ = 0 /\ lastdsub_ = 0
  /\ centroids_ = Zeros(0)
  /\ rng = 0

InitShapeVars == ret_const = -1 /\ ret_mut = -1 /\ arg_m = -1 /\ arg_i = -1

InitAssignVars ==
  /\ a_x = Zeros(0) /\ a_c0 = Zeros(0) /\ a_d = 0
  /\ a_code = -1 /\ a_dis = -1 /\ a_prev = -1 /\ a_calls = 0

InitTrainVars ==
  /\ status = "none" /\ t_n = 0 /\ t_x = Zeros(0)
  /\ perm = Zeros(0) /\ np = 0 /\ t_d = 0 /\ t_m = 0 /\ xslice = Zeros(0)
  /\ codes = Zeros(0) /\ iter = 0
  /\ nelts = Zeros(0) /\ ms_k = 0 /\ ms_m = 0
  /\ kmeans_runs = 0 /\ donors = <<>>

InitPersistVars ==
  /\ stream = <<>> /\ failbit = FALSE /\ load_status = "none"
  /\ last_op = "none" /\ trip = "none" /\ snap = NoObject

InitCodecVars == code_buf = Zeros(0) /\ xvec = Zeros(0) /\ res = 0

(***************************************************************************)
(* SpecShape: construction and addressing.                                 *)
(***************************************************************************)
InitShape == InitObject /\ InitShapeVars /\ InitAssignVars /\ InitTrainVars /\ InitPersistVars /\ InitCodecVars

ShapeConstruct ==
  \E dim \in 1 .. ShapeMaxDim, dsub \in 1 .. ShapeMaxDsub :
    Construct(dim, dsub) /\ UNCHANGED <<shapevars, assignvars, trainvars, persistvars, codecvars>>

ShapeGetCentroids ==
  \E m \in 0 .. nsubq_ - 1, i \in 0 .. ksub_ - 1 : GetCentroids(m, i)

NextShape == ShapeConstruct \/ ShapeGetCentroids

SpecShape == InitShape /\ [][NextShape]_vars

\* C1: after construction from any positive (dim, dsub), num_subspaces >= 1,
\* 1 <= last_subspace_dim <= subspace_dim, the dimension invariant
\* (num_subspaces-1)*subspace_dim + last_subspace_dim = dim holds, and the
\* per-subspace storage widths sum to dim.
C1_DimensionInvariant ==
  pc = "idle" =>
    /\ nsubq_ >= 1
    /\ 1 <= lastdsub_ /\ lastdsub_ <= dsub_
    /\ (nsubq_ - 1) * dsub_ + lastdsub_ = dim_
    /\ SumTo([m \in 0 .. nsubq_ - 1 |-> Width(m)], nsubq_) = dim_

\* C1 witness: a constructed quantizer whose subspace_dim does not divide dim
\* and that has a regular subspace before the irregular last one.
C1_Witness == pc = "idle" /\ dim_ % dsub_ # 0 /\ nsubq_ >= 2

Slot(m, i) == get_centroids_const(m, i) .. get_centroids_const(m, i) + Width(m) - 1

Cells == (0 .. nsubq_ - 1) \X (0 .. ksub_ - 1)

\* C10: every slot [offset(m,i), offset(m,i)+width(m)) lies inside the table
\* [0, dim*ksub), slots of distinct (m,i) are disjoint, together they cover
\* the table, and both accessors return the same offset.
C10_SlotsPartitionTable ==
  pc = "idle" =>
    /\ \A c \in Cells : Slot(c[1], c[2]) \subseteq 0 .. dim_ * ksub_ - 1
    /\ \A c \in Cells : Slot(c[1], c[2]) \subseteq DOMAIN centroids_
    /\ \A c1 \in Cells, c2 \in Cells :
         c1 # c2 => Slot(c1[1], c1[2]) \cap Slot(c2[1], c2[2]) = {}
    /\ UNION {Slot(c[1], c[2]) : c \in Cells} = 0 .. dim_ * ksub_ - 1
    /\ \A c \in Cells : get_centroids(c[1], c[2]) = get_centroids_const(c[1], c[2])
    /\ ret_mut = ret_const

\* C10 witness: the accessors were called for a centroid after the first of
\* an irregular last subspace.
C10_Witness ==
  /\ pc = "idle" /\ nsubq_ >= 2 /\ lastdsub_ # dsub_
  /\ arg_m = nsubq_ - 1 /\ arg_i = ksub_ - 1
  /\ ret_mut = arg_m * ksub_ * dsub_ + arg_i * lastdsub_

(***************************************************************************)
(* SpecAssign: assign_centroid on every input vector and centroid block    *)
(* within the bounds.                                                      *)
(***************************************************************************)
InitAssign ==
  /\ InitObject /\ InitShapeVars /\ InitTrainVars /\ InitPersistVars /\ InitCodecVars
  /\ a_d \in AssignDims
  /\ a_x \in [0 .. a_d - 1 -> 0 .. AssignMaxVal]
  /\ a_c0 \in [0 .. ksub_ * a_d - 1 -> 0 .. AssignMaxVal]
  /\ a_code = -1 /\ a_dis = -1 /\ a_prev = -1 /\ a_calls = 0

NextAssign == AssignCentroid

SpecAssign == InitAssign /\ [][NextAssign]_vars

\* Squared L2 distance from the input to centroid j of the block, summed
\* coordinate by coordinate.
A_Dist(j) == distL2(a_x, 0, a_c0, j * a_d, a_d)

\* C5: assign returns the lowest index among the centroids at minimum squared
\* L2 distance from x, with that minimum distance; a repeated call on the
\* same input returns the same index.
C5_AssignLowestNearest ==
  a_calls >= 1 =>
    /\ a_code \in 0 .. ksub_ - 1
    /\ a_dis = A_Dist(a_code)
    /\ \A j \in 0 .. ksub_ - 1 : A_Dist(j) >= a_dis
    /\ \A j \in 0 .. a_code - 1 : A_Dist(j) > a_dis
    /\ a_calls >= 2 => a_prev = a_code

\* C5 witness: two calls were made on a block in which a later centroid ties
\* with the returned one at the minimum distance, and the first centroid is
\* not nearest.
C5_Witness ==
  /\ a_calls = 2 /\ a_code > 0
  /\ \E j \in a_code + 1 .. ksub_ - 1 : A_Dist(j) = a_dis

(***************************************************************************)
(* SpecTrain: construction and one training run, step by step.             *)
(***************************************************************************)
RECURSIVE Fact(_)
Fact(n) == IF n <= 1 THEN 1 ELSE n * Fact(n - 1)

\* Coordinates of the training points are multiples of PointScale, so that
\* every cluster mean is a whole number of units.
PointScale == 2 * Fact(max_points_)

\* Coordinate j of the point with identifier v.
PointCoord(v, j) == PointScale * ((v + j) % Cardinality(TrainPoints))

\* The data sets of n points of dimension dim: the points' identifiers in
\* non-decreasing order.
DataSets(n, dim) ==
  {[o \in 0 .. n * dim - 1 |-> PointCoord(ids[o \div dim], o % dim)] :
     ids \in {f \in [0 .. n - 1 -> TrainPoints] :
                \A i \in 0 .. n - 2 : f[i] <= f[i + 1]}}

InitTrain == InitObject /\ InitShapeVars /\ InitAssignVars /\ InitTrainVars /\ InitPersistVars /\ InitCodecVars

TrainConstruct ==
  \E s \in TrainShapes :
    Construct(s[1], s[2]) /\ UNCHANGED <<shapevars, assignvars, trainvars, persistvars, codecvars>>

TrainStart ==
  \E n \in ksub_ - 1 .. max_points_ + 1 : \E x \in DataSets(n, dim_) : TrainCall(n, x)

DonorPass == \E t \in Draws(np) : DonorReject(t)

DonorStop == \E t \in Draws(np) : DonorAccept(t)

TrainStep ==
  \/ TrainSubspace
  \/ TrainReturn
  \/ EStepMeans
  \/ KmeansReturn
  \/ ReseedSkip
  \/ ReseedStart
  \/ DonorPass
  \/ DonorStop
  \/ MStepReturn

NextTrain == TrainConstruct \/ TrainStart \/ TrainStep

SpecTrain == InitTrain /\ [][NextTrain]_vars

FairConstruct ==
  \E s \in FairShapes :
    Construct(s[1], s[2]) /\ UNCHANGED <<shapevars, assignvars, trainvars, persistvars, codecvars>>

NextFairTrain == FairConstruct \/ TrainStart \/ TrainStep

\* The calling thread runs train to its end, and the generator's draws are
\* fair: a donor that is offered again and again is eventually accepted.
FairSpecTrain ==
  InitTrain /\ [][NextFairTrain]_vars /\ WF_vars(TrainStep) /\ SF_vars(DonorStop)

\* C2: a train call fails with the insufficient-data condition exactly when
\* n < ksub_; a failing call runs no shuffle, slice copy or clustering step
\* and leaves the centroid table and the generator as they were; a call with
\* n >= ksub_ (n = ksub_ included) does not fail and, when it returns, has run
\* kmeans once for every subspace.
C2_TrainGuard ==
  [][/\ pc = "idle" =>
          /\ (t_n' < ksub_) <=> (status' = "invalid_argument")
          /\ (t_n' >= ksub_) <=> (status' = "running" /\ pc' = "subq")
          /\ status' = "invalid_argument" =>
                UNCHANGED <<pc, centroids_, rng, perm, xslice, codes, nelts, kmeans_runs>>
     /\ status' = "ok" => kmeans_runs' = nsubq_'
    ]_vars

\* C2 witness: a call with n = ksub_ has returned after training two or more
\* subspaces.
C2_Witness ==
  status = "ok" /\ t_n = ksub_ /\ nsubq_ >= 2 /\ kmeans_runs = nsubq_

\* C6: when the reseed loop of an M-step has passed every cluster, every
\* recorded count is at least 1 and the counts sum to n.
C6_CountsAfterReseed ==
  (pc = "reseed" /\ ms_k = ksub_) =>
    /\ \A c \in 0 .. ksub_ - 1 : nelts[c] >= 1
    /\ SumTo(nelts, ksub_) = np

\* C6 witness: an M-step ends in which two or more clusters were reseeded and
\* a cluster reseeded earlier was the donor of a later one.
C6_Witness ==
  /\ pc = "reseed" /\ ms_k = ksub_
  /\ \E i \in 1 .. Len(donors), j \in 1 .. Len(donors) :
       i < j /\ donors[j][2] = donors[i][1]

\* The reseed of cluster ms_k from donor ms_m, as one step.
ReseedDone == pc = "donor" /\ pc' = "reseed"

\* Offsets of coordinate j of the donor and of the new cluster.
DonorAt(j) == get_centroids(t_m, 0) + ms_m * t_d + j
NewAt(j) == get_centroids(t_m, 0) + ms_k * t_d + j

\* C8 as stated: at every even coordinate the donor decreases by epsilon and
\* the new cluster (the donor's copy) increases by epsilon, at every odd
\* coordinate the reverse.
C8_AsStated ==
  [][ReseedDone =>
       \A j \in 0 .. t_d - 1 :
         IF j % 2 = 0
           THEN /\ centroids_'[DonorAt(j)] = centroids_[DonorAt(j)] - eps_
                /\ centroids_'[NewAt(j)] = centroids_[DonorAt(j)] + eps_
           ELSE /\ centroids_'[DonorAt(j)] = centroids_[DonorAt(j)] + eps_
                /\ centroids_'[NewAt(j)] = centroids_[DonorAt(j)] - eps_
    ]_vars

\* C8 amended: at every even coordinate the donor increases by epsilon and
\* the new cluster (the donor's copy) decreases by epsilon, at every odd
\* coordinate the donor decreases and the new cluster increases.
C8_Perturbation ==
  [][ReseedDone =>
       \A j \in 0 .. t_d - 1 :
         IF j % 2 = 0
           THEN /\ centroids_'[DonorAt(j)] = centroids_[DonorAt(j)] + eps_
                /\ centroids_'[NewAt(j)] = centroids_[DonorAt(j)] - eps_
           ELSE /\ centroids_'[DonorAt(j)] = centroids_[DonorAt(j)] - eps_
                /\ centroids_'[NewAt(j)] = centroids_[DonorAt(j)] + eps_
    ]_vars

\* C8 witness: a cluster of width two has just been reseeded: the new
\* cluster lies two epsilon below its donor at coordinate 0 and two epsilon
\* above it at coordinate 1.
C8_Witness ==
  /\ pc = "reseed" /\ t_d >= 2 /\ Len(donors) = 1
  /\ LET base == get_centroids(t_m, 0)
         kk == donors[1][1]
         mm == donors[1][2]
     IN /\ centroids_[base + kk * t_d] = centroids_[base + mm * t_d] - 2 * eps_
        /\ centroids_[base + kk * t_d + 1] = centroids_[base + mm * t_d + 1] + 2 * eps_

CodecVectors(n) == DataSets(n, dim_)

CodecOps == {"compute_code", "compute_codes", "mulcode", "addcode"}

CodecConstruct ==
  \E s \in CodecShapes :
    Construct(s[1], s[2]) /\ UNCHANGED <<shapevars, assignvars, trainvars, persistvars, codecvars>>

CodecTrainStart == \E x \in DataSets(ksub_, dim_) : TrainCall(ksub_, x)

CodecComputeCode == \E x \in CodecVectors(1) : ComputeCode(x)

CodecComputeCodes ==
  \E n \in CodecBatches : \E x \in CodecVectors(n) : ComputeCodes(x, n)

CodecMulcode ==
  \E x \in CodecVectors(1) : \E t \in CodesHeld : \E alpha \in CodecAlphas :
    Mulcode(x, t, alpha)

CodecAddcode ==
  \E x \in CodecVectors(1) : \E t \in CodesHeld : \E alpha \in CodecAlphas :
    Addcode(x, t, alpha)

NextCodec ==
  \/ CodecConstruct
  \/ CodecTrainStart
  \/ TrainStep
  \/ CodecComputeCode
  \/ CodecComputeCodes
  \/ CodecMulcode
  \/ CodecAddcode

SpecCodec == InitTrain /\ [][NextCodec]_vars

\* C7: on a trained quantizer, compute_code, compute_codes, mulcode and
\* addcode leave the centroid table, the four dimensions and the generator
\* as they were; addcode changes nothing but the caller's dense vector, the
\* encoders nothing but the caller's code buffer, and mulcode neither of them.
C7_CodecFrame ==
  [][(Trained /\ last_op' \in CodecOps) =>
       /\ UNCHANGED <<dim_, nsubq_, dsub_, lastdsub_, centroids_, rng>>
       /\ Trained'
       /\ (last_op' = "addcode" => UNCHANGED <<code_buf, res>>)
       /\ (last_op' \in {"compute_code", "compute_codes"} => UNCHANGED <<xvec, res>>)
       /\ (last_op' = "mulcode" => UNCHANGED <<code_buf, xvec>>)]_vars

\* C7 witness: after training filled the table, two vectors were encoded to
\* codes that are not all zero, mulcode returned a non-zero product, and
\* addcode then added a non-zero centroid into the caller's vector.
C7_Witness ==
  /\ Trained
  /\ last_op = "addcode"
  /\ res # 0
  /\ \E o \in DOMAIN centroids_ : centroids_[o] # 0
  /\ Size(code_buf) = 2 * nsubq_
  /\ \E o \in DOMAIN code_buf : code_buf[o] # 0
  /\ \E o \in DOMAIN xvec : xvec[o] > PointScale

(***************************************************************************)
(* SpecPersist: instances that save and load, and streams from outside.    *)
(***************************************************************************)
\* The headers of the streams given from outside: a shape as the
\* constructor derives it, with the dimension replaced by one of StreamDims.
StreamHeaders ==
  {[ProductQuantizer(IF dim >= 1 THEN dim ELSE 1, dsub) EXCEPT !.dim_ = dim] :
     dim \in StreamDims, dsub \in StreamDsubs}

\* Complete streams: a header and dim * ksub_ reals.
CompleteStreams ==
  UNION {{save([h EXCEPT !.centroids_ = c]) :
            c \in [0 .. (IF h.dim_ >= 1 THEN h.dim_ * ksub_ ELSE 0) - 1 -> StreamReals]} :
         h \in StreamHeaders}

\* The streams given from outside: the complete ones, and those of a
\* non-negative dimension cut short at any byte.
ExtStreams ==
  CompleteStreams
    \cup UNION {{SubSeq(s, 1, n) : n \in 0 .. Len(s)} :
                s \in {c \in CompleteStreams : c[4] = 0}}

InitPersist == InitObject /\ InitShapeVars /\ InitAssignVars /\ InitTrainVars /\ InitPersistVars /\ InitCodecVars

PersistConstruct ==
  \E s \in PersistShapes :
    /\ Construct(s[1], s[2])
    /\ last_op' = "construct"
    /\ UNCHANGED <<stream, failbit, load_status, trip, snap>>
    /\ UNCHANGED <<shapevars, assignvars, trainvars, codecvars>>

PersistFresh == \E s \in PersistShapes : FreshInstance(s[1], s[2])

PersistLoadExternal == \E s \in ExtStreams : LoadExternal(s)

NextPersist ==
  \/ PersistConstruct
  \/ PersistFresh
  \/ Save
  \/ LoadStream
  \/ PersistLoadExternal

SpecPersist == InitPersist /\ [][NextPersist]_vars

\* The last operations were a save and then a load of the saved bytes, into
\* the saving instance or into a fresh one.
SavedThenLoaded == trip \in {"loaded", "loaded_fresh"}

\* C3: a load of the bytes a save produced, into the saving instance or into
\* a fresh instance of any shape, yields the dim, num_subspaces,
\* subspace_dim, last_subspace_dim and centroid table (of length
\* dim * ksub) of the saving instance, value for value.
C3_SaveLoadRoundTrip ==
  SavedThenLoaded =>
    /\ load_status = "ok" /\ ~failbit
    /\ dim_ = snap.dim_ /\ nsubq_ = snap.nsubq_
    /\ dsub_ = snap.dsub_ /\ lastdsub_ = snap.lastdsub_
    /\ centroids_ = snap.centroids_
    /\ Size(centroids_) = dim_ * ksub_

\* C3 witness: a table with a non-zero value was saved and loaded into a
\* fresh instance.
C3_Witness ==
  /\ trip = "loaded_fresh"
  /\ \E i \in DOMAIN centroids_ : centroids_[i] # 0

\* C4 as stated: a load whose stream ended before the header and
\* dim * ksub reals were read, or whose header gave a non-positive
\* dimension, does not complete silently.
C4_LoadSurfacesMalformed ==
  (last_op \in {"load", "load_ext"} /\ (failbit \/ dim_ <= 0))
    => load_status # "ok"

\* C4 witness: a load from a stream that ended before the table was read has
\* returned normally.
C4_Witness == last_op = "load_ext" /\ failbit /\ load_status = "ok" /\ dim_ >= 1

====
